---- MODULE Spec2Model ----
(***************************************************************************)
(* Traffic simulation of one signalised four-way intersection:             *)
(* Car (the per-vehicle state machine) and CarManager (the population,     *)
(* spawning, the per-tick update and the completion sweep), with the part  *)
(* of Intersection (roads, alternative trajectories, footprint) they read. *)
(*                                                                         *)
(* Units.  Stations (u) and speeds are kept in hundredths of the source's  *)
(* unit so that the turn-entry station 104.16 is an integer: M(n) is n     *)
(* source units.  Elapsed time (deltaTime) is in milliseconds as in the    *)
(* source; the source's dt = deltaTime / 1000 appears as "\div 1000".      *)
(***************************************************************************)
EXTENDS Integers, Sequences, FiniteSets, TLC

VARIABLES
    cars,            \* CarManager.cars: the live population, in spawn order
    nextCarId,       \* CarManager.nextCarId
    spawnTimer,      \* CarManager.spawnTimer, ms
    settings,        \* CarManager.settings
    onCarCompleted,  \* whether CarManager.onCarCompleted holds a callback
    lightStates,     \* the signal: the lightStates argument of the next update
    now,             \* the wall clock, Date.now()
    attempt,         \* history: the last update's spawn attempt, if it made one
    retired,         \* history: the vehicles the last update's sweep removed
    called,          \* history: the callback invocations of the last update
    notified,        \* history: the ids the callback was invoked for since the reset
    lookup,          \* history: the last car-ahead lookup made on its own, and its result
    probe            \* history: the last evaluation of the road geometry made on its own

vars == <<cars, nextCarId, spawnTimer, settings, onCarCompleted,
          lightStates, now, attempt, retired, called, notified, lookup, probe>>

\* ------------------------------------------------------------------ bounds
\* Vehicles spawned between two resets in the two-vehicle specification.
MaxCars == 2
\* Largest value of the wall clock (Date.now()) the model explores.
MaxNow == 2
\* Stations are explored up to this many source units (the road is 200 long).
MaxU == 250
\* The spawn timer is only compared with the spawn interval: readings above
\* this many ms (no interval of SettingsSet is longer) are kept as this one.
MaxTimer == 5000

\* ------------------------------------------------------------- arithmetic
M(n) == n * 100
Min(a, b) == IF a <= b THEN a ELSE b
Max(a, b) == IF a >= b THEN a ELSE b
Abs(a) == IF a >= 0 THEN a ELSE 0 - a

\* ------------------------------------------------------------------ CONFIG
NORTH == "north"
EAST == "east"
SOUTH == "south"
WEST == "west"
\* The order of Car.calculateToDirection's and CarManager.spawnCar's array.
directions == <<NORTH, EAST, SOUTH, WEST>>
DIRECTIONS == {NORTH, EAST, SOUTH, WEST}
LIGHT_STATES == {"RED", "YELLOW", "GREEN"}
TURN_TYPES == {"straight", "left", "right"}
\* Road ids as Intersection.initializeRoads numbers them.
EAST_BOUND == 0
WEST_BOUND == 1
NORTH_BOUND == 2
NORTH_EXIT == 3
SOUTH_BOUND == 4
SOUTH_EXIT == 5
ROADS == 0..5
\* Every road is built with type names that never contain 'main', so each
\* gets CONFIG.N_LANES_SEC lanes.
N_LANES_SEC == 2
nLanes(roadId) == N_LANES_SEC
roadLen == M(200)
\* Alternative (turn) trajectories.
u20Target == 10416
LEN_RIGHT == M(20)
LEN_LEFT == M(30)
\* CONFIG.DEFAULT_SETTINGS.TURN_RATE, in percent.
DEFAULT_TURN_RATE == 50
\* Pixels per source unit (CONFIG.CANVAS_WIDTH / CONFIG.REF_SIZE_PHYS).
scale == 2
\* CONFIG.ROAD_WIDTH, pixels.
ROAD_WIDTH == 60
\* CONFIG.LANE_WIDTH, pixels.
LANE_WIDTH == 30
\* Station of the intersection's entry edge on an entry road.
intersectionEntry == M(100)
\* Station at which a vehicle is constructed.
spawnStation == M(10)

\* CONFIG.DEFAULT_SETTINGS.  CAR_SPAWN_RATE is kept in hundredths (250 is a
\* rate of 2.5, a spawn interval of 4000 ms), TURN_RATE in percent.
DEFAULT_SETTINGS == [CAR_SPAWN_RATE |-> 250, CAR_SPEED |-> M(10), TURN_RATE |-> DEFAULT_TURN_RATE]
\* Settings snapshots updateSettings and initialize are called with: spawning
\* switched off (rate 0), and a rate of 10 (a spawn interval of 1000 ms).
SETTINGS_OFF == [CAR_SPAWN_RATE |-> 0, CAR_SPEED |-> M(10), TURN_RATE |-> 0]
SETTINGS_FAST == [CAR_SPAWN_RATE |-> 1000, CAR_SPEED |-> M(10), TURN_RATE |-> 100]
\* Half the default speed, twice the default spawn rate.
SETTINGS_SLOW == [CAR_SPAWN_RATE |-> 500, CAR_SPEED |-> M(5), TURN_RATE |-> DEFAULT_TURN_RATE]
SettingsSet == {DEFAULT_SETTINGS, SETTINGS_OFF}

\* ------------------------------------------------------------------ inputs
\* Elapsed milliseconds of one tick: a short frame and a long stall.
DeltaTimes == {2000, 10000}
\* Short frames only: no vehicle advances 30 units in one of them.
ShortDeltaTimes == {2000}
\* Math.random() draws of calculateTurnType, in percent.
TurnChances == {10, 40, 90}
\* Directions and lanes spawnCar's random draws are taken from.
SpawnDirections == {NORTH, EAST}
SpawnLanes == {0, 1}
\* Signal pictures: the north/south pair shows a, the east/west pair shows b.
\* The phases of a two-phase signal, all-red included.
LightMap(a, b) == [d \in DIRECTIONS |-> IF d \in {NORTH, SOUTH} THEN a ELSE b]
LightMaps == { LightMap("RED", "RED"), LightMap("GREEN", "RED"), LightMap("YELLOW", "RED"),
               LightMap("RED", "GREEN"), LightMap("RED", "YELLOW") }

\* A function value standing for JavaScript's null (timestamps are >= 1).
NULL == 0
Infinity == 1000000000

\* ------------------------------------------------------------ Intersection
\* CarManager.getRoadIdFromDirection / Car.getRoadIdFromDirection.
getRoadIdFromDirection(direction) ==
    CASE direction = EAST -> EAST_BOUND
      [] direction = WEST -> WEST_BOUND
      [] direction = NORTH -> NORTH_BOUND
      [] direction = SOUTH -> SOUTH_BOUND
      [] OTHER -> 0

\* One entry of road.trajAlt: a right turn leaves from the last lane.
setupRightTurnTrajectory(fromRoadId, toRoadId) ==
    [roadID |-> toRoadId, umin |-> u20Target, umax |-> u20Target + LEN_RIGHT,
     laneMin |-> nLanes(fromRoadId) - 1, laneMax |-> nLanes(fromRoadId) - 1]

\* One entry of road.trajAlt: a left turn leaves from lane 0.
setupLeftTurnTrajectory(fromRoadId, toRoadId) ==
    [roadID |-> toRoadId, umin |-> u20Target, umax |-> u20Target + LEN_LEFT,
     laneMin |-> 0, laneMax |-> 0]

\* road.trajAlt of each road, in the order the entries are pushed.
setupAlternativeTrajectories(roadId) ==
    CASE roadId = 0 -> << setupRightTurnTrajectory(0, 2), setupLeftTurnTrajectory(0, 3) >>
      [] roadId = 1 -> << setupRightTurnTrajectory(1, 4), setupLeftTurnTrajectory(1, 5) >>
      [] roadId = 2 -> << setupRightTurnTrajectory(2, 0), setupLeftTurnTrajectory(2, 1) >>
      [] roadId = 4 -> << setupRightTurnTrajectory(4, 1), setupLeftTurnTrajectory(4, 0) >>
      [] OTHER -> << >>

\* Intersection.isInIntersection applied to the pose of a vehicle at station
\* u of road roadId: the pose lies in the central square while the station is
\* between the entry edge and the far edge, ROAD_WIDTH pixels further on; the
\* exit roads (3, 5) start beyond the square.
isInIntersection(roadId, u) ==
    /\ roadId \in {EAST_BOUND, WEST_BOUND, NORTH_BOUND, SOUTH_BOUND}
    /\ intersectionEntry <= u
    /\ u <= intersectionEntry + M(ROAD_WIDTH) \div scale

\* utils.getDistance from a vehicle's pose to its entry direction's spawn point,
\* in pixels: the vehicle is constructed at the spawn point and moves away from
\* it along its entry road; on any other road it is far from it.  A vehicle
\* whose road does not resolve keeps the pose it was constructed with.
getDistanceToSpawnPoint(car, direction) ==
    IF car.roadId = getRoadIdFromDirection(direction)
    THEN (scale * Abs(car.u - spawnStation)) \div 100
    ELSE IF car.roadId \notin ROADS /\ car.fromDirection = direction
         THEN 0
         ELSE Infinity

\* --------------------------------------------------------------------- Car
calculateTurnType(turnChance) ==
    IF 2 * turnChance < DEFAULT_TURN_RATE THEN "left"
    ELSE IF turnChance < DEFAULT_TURN_RATE THEN "right"
    ELSE "straight"

indexOf(direction) == CHOOSE i \in 1..4 : directions[i] = direction

\* indexes are 1-based here: directions[(currentIndex + k) % 4] of the source.
calculateToDirection(fromDirection, turnType) ==
    LET currentIndex == indexOf(fromDirection) - 1
    IN CASE turnType = "left" -> directions[((currentIndex + 1) % 4) + 1]
         [] turnType = "right" -> directions[((currentIndex + 3) % 4) + 1]
         [] OTHER -> directions[((currentIndex + 2) % 4) + 1]

\* Headings, as multiples of pi; NaN is the IEEE not-a-number, and OffTangent
\* stands for every heading with a non-zero lane-change correction.
ANGLES == {"0", "pi/2", "pi", "3pi/2", "-pi/2", "NaN", "OffTangent"}

getInitialAngle(fromDirection) ==
    CASE fromDirection = NORTH -> "pi/2"
      [] fromDirection = EAST -> "pi"
      [] fromDirection = SOUTH -> "-pi/2"
      [] OTHER -> "0"

\* The tangent angle of a road's primary trajectory (a straight line, so the
\* same at every station): atan(dy/dx), or pi/2 for dx = 0, plus pi for
\* dx < 0 or dx = 0 and dy < 0.
get_phi(roadId) ==
    CASE roadId = EAST_BOUND -> "0"
      [] roadId = WEST_BOUND -> "pi"
      [] roadId = NORTH_BOUND -> "pi/2"
      [] roadId = NORTH_EXIT -> "pi/2"
      [] roadId = SOUTH_BOUND -> "3pi/2"
      [] OTHER -> "3pi/2"

\* -Math.atan(dvdt * laneWidth / speed) in IEEE arithmetic: 0/0 is NaN and
\* atan(NaN) is NaN; 0/speed is 0 for speed > 0.
phiVehRel(dvdt, speed) ==
    IF dvdt = 0
    THEN IF speed = 0 THEN "NaN" ELSE "0"
    ELSE "OffTangent"

\* phiRoad + phiVehRel: NaN if the correction is NaN.
getVehicleOrientation(roadId, u, dvdt, speed) ==
    IF roadId \notin ROADS
    THEN "0"
    ELSE LET rel == phiVehRel(dvdt, speed)
         IN IF rel = "0" THEN get_phi(roadId) ELSE rel

\* The heading part of updatePixelPosition; (x, y) is a function of
\* (roadId, u, v) and is not stored.  c is the vehicle car, taken once.
updatePixelPosition(car) ==
    CHOOSE posed \in
        { IF c.roadId \in ROADS
          THEN [c EXCEPT !.angle = getVehicleOrientation(c.roadId, c.u, c.dvdt, c.speed)]
          ELSE c : c \in {car} } : TRUE

\* new Car({id, direction, intersection, lane, roadId}).  The route, and with
\* it toDirection, is computed before turnType is assigned, so
\* calculateToDirection reads an undefined turnType.
NewCar(id, direction, lane, roadId, turnChance) ==
  updatePixelPosition(
    [ id |-> id,
      fromDirection |-> direction,
      toDirection |-> calculateToDirection(direction, "undefined"),
      turnType |-> calculateTurnType(turnChance),
      lane |-> lane,
      roadId |-> roadId,
      u |-> spawnStation,
      v |-> lane,
      dvdt |-> 0,
      speed |-> 0,
      maxSpeed |-> DEFAULT_SETTINGS.CAR_SPEED * LANE_WIDTH,
      state |-> "approaching",
      waitStartTime |-> NULL,
      totalWaitTime |-> 0,
      isInIntersection |-> FALSE,
      pathProgress |-> 0,
      turnStartTime |-> NULL,
      isHidden |-> FALSE,
      angle |-> getInitialAngle(direction),
      was |-> "constructed" ])

\* prepareForTurn committing left turners only.
prepareForTurnLeftOnly(car) ==
    IF car.turnType = "left" THEN [car EXCEPT !.lane = 0] ELSE car

prepareForTurn(car) ==
    IF car.turnType = "left" THEN [car EXCEPT !.lane = 0]
    ELSE IF car.turnType = "right" THEN [car EXCEPT !.lane = 1]
    ELSE car

getDistanceToStopLine(car) == Max(0, intersectionEntry - car.u)

\* The loop of Car.checkForCarAhead from index i on; closestCar is an index
\* into allCars, 0 for null.
RECURSIVE scanForCarAhead(_, _, _, _, _)
scanForCarAhead(car, allCars, i, closestCar, closestDistance) ==
    IF i > Len(allCars) THEN closestCar
    ELSE LET otherCar == allCars[i]
             isAhead == otherCar.u > car.u
             distance == otherCar.u - car.u
         IN IF otherCar.id = car.id \/ otherCar.roadId # car.roadId
            THEN scanForCarAhead(car, allCars, i + 1, closestCar, closestDistance)
            ELSE IF isAhead /\ distance > 0 /\ distance < closestDistance
                 THEN scanForCarAhead(car, allCars, i + 1, i, distance)
                 ELSE scanForCarAhead(car, allCars, i + 1, closestCar, closestDistance)

\* The loop started at the second vehicle of the population.
checkForCarAheadFromSecond(car, allCars) == scanForCarAhead(car, allCars, 2, 0, Infinity)

checkForCarAhead(car, allCars) == scanForCarAhead(car, allCars, 1, 0, Infinity)

getDistanceToCarAhead(car, allCars, carAhead) ==
    IF carAhead = 0 THEN Infinity ELSE Abs(allCars[carAhead].u - car.u)

\* updateApproaching with the near-threshold test written "<" instead of "<=".
updateApproachingStrict(car, dt, lights, allCars, t) ==
    LET c == prepareForTurn(car)
        distanceToStop == getDistanceToStopLine(c)
        carAhead == checkForCarAhead(c, allCars)
        shouldStop == carAhead # 0 /\ getDistanceToCarAhead(c, allCars, carAhead) < M(35)
    IN IF (distanceToStop < M(30) \/ shouldStop)
          /\ (lights[c.fromDirection] = "RED" \/ shouldStop)
       THEN [c EXCEPT !.state = "waiting",
                      !.speed = 0,
                      !.waitStartTime = IF ~shouldStop THEN t ELSE @]
       ELSE [c EXCEPT !.speed = Min(c.maxSpeed, c.speed + (M(10) * dt) \div 1000),
                      !.state = IF c.isInIntersection THEN "crossing" ELSE @]

\* updateApproaching recording the wait-start time for every stop.
updateApproachingStampsAll(car, dt, lights, allCars, t) ==
    LET c == prepareForTurn(car)
        distanceToStop == getDistanceToStopLine(c)
        carAhead == checkForCarAhead(c, allCars)
        shouldStop == carAhead # 0 /\ getDistanceToCarAhead(c, allCars, carAhead) < M(35)
    IN IF (distanceToStop <= M(30) \/ shouldStop)
          /\ (lights[c.fromDirection] = "RED" \/ shouldStop)
       THEN [c EXCEPT !.state = "waiting",
                      !.speed = 0,
                      !.waitStartTime = t]
       ELSE [c EXCEPT !.speed = Min(c.maxSpeed, c.speed + (M(10) * dt) \div 1000),
                      !.state = IF c.isInIntersection THEN "crossing" ELSE @]

updateApproaching(car, dt, lights, allCars, t) ==
    LET c == prepareForTurn(car)
        distanceToStop == getDistanceToStopLine(c)
        carAhead == checkForCarAhead(c, allCars)
        shouldStop == carAhead # 0 /\ getDistanceToCarAhead(c, allCars, carAhead) < M(35)
    IN IF (distanceToStop <= M(30) \/ shouldStop)
          /\ (lights[c.fromDirection] = "RED" \/ shouldStop)
       THEN [c EXCEPT !.state = "waiting",
                      !.speed = 0,
                      !.waitStartTime = IF ~shouldStop THEN t ELSE @]
       ELSE [c EXCEPT !.speed = Min(c.maxSpeed, c.speed + (M(10) * dt) \div 1000),
                      !.state = IF c.isInIntersection THEN "crossing" ELSE @]

\* updateWaiting without the accumulation of totalWaitTime.
updateWaitingNoClock(car, dt, lights, t) ==
    LET c == [car EXCEPT !.speed = 0]
    IN IF lights[c.fromDirection] \in {"GREEN", "YELLOW"}
       THEN [c EXCEPT !.state = "crossing", !.waitStartTime = NULL]
       ELSE c

\* updateWaiting releasing the vehicle on GREEN only.
updateWaitingGreenOnly(car, dt, lights, t) ==
    LET c == [car EXCEPT !.speed = 0,
                         !.totalWaitTime = IF car.waitStartTime # NULL
                                           THEN t - car.waitStartTime ELSE @]
    IN IF lights[c.fromDirection] = "GREEN"
       THEN [c EXCEPT !.state = "crossing", !.waitStartTime = NULL]
       ELSE c

\* updateWaiting releasing the vehicle with its wait-start timestamp kept.
updateWaitingKeepsStamp(car, dt, lights, t) ==
    LET c == [car EXCEPT !.speed = 0,
                         !.totalWaitTime = IF car.waitStartTime # NULL
                                           THEN t - car.waitStartTime ELSE @]
    IN IF lights[c.fromDirection] \in {"GREEN", "YELLOW"}
       THEN [c EXCEPT !.state = "crossing"]
       ELSE c

updateWaiting(car, dt, lights, t) ==
    LET c == [car EXCEPT !.speed = 0,
                         !.totalWaitTime = IF car.waitStartTime # NULL
                                           THEN t - car.waitStartTime ELSE @]
    IN IF lights[c.fromDirection] \in {"GREEN", "YELLOW"}
       THEN [c EXCEPT !.state = "crossing", !.waitStartTime = NULL]
       ELSE c

\* Array.find over road.trajAlt: the index of the first match, 0 for none.
findAltTraj(car) ==
    LET trajAlt == setupAlternativeTrajectories(car.roadId)
        matches == { k \in 1..Len(trajAlt) :
                        /\ car.u >= trajAlt[k].umin /\ car.u <= trajAlt[k].umax
                        /\ car.lane >= trajAlt[k].laneMin /\ car.lane <= trajAlt[k].laneMax }
    IN IF matches = {} THEN 0 ELSE CHOOSE k \in matches : \A j \in matches : k <= j

\* followAlternativeTrajectory switching the road without resetting u.
followAlternativeTrajectoryKeepsU(car, dt) ==
    LET k == findAltTraj(car)
        altTraj == setupAlternativeTrajectories(car.roadId)[k]
    IN IF k # 0
       THEN [car EXCEPT !.roadId = altTraj.roadID,
                        !.speed = Min((car.maxSpeed * 8) \div 10, car.speed)]
       ELSE car

\* followAlternativeTrajectory handing a vehicle that switches to the teleport
\* turn: it is hidden and put in turning.
followAlternativeTrajectoryTeleports(car, dt) ==
    LET k == findAltTraj(car)
        altTraj == setupAlternativeTrajectories(car.roadId)[k]
    IN IF k # 0
       THEN [car EXCEPT !.roadId = altTraj.roadID,
                        !.u = altTraj.umin,
                        !.speed = Min((car.maxSpeed * 8) \div 10, car.speed),
                        !.state = "turning",
                        !.isHidden = TRUE]
       ELSE car

followAlternativeTrajectory(car, dt) ==
    LET k == findAltTraj(car)
        altTraj == setupAlternativeTrajectories(car.roadId)[k]
    IN IF k # 0
       THEN [car EXCEPT !.roadId = altTraj.roadID,
                        !.u = altTraj.umin,
                        !.speed = Min((car.maxSpeed * 8) \div 10, car.speed)]
       ELSE car

\* pathProgress is only ever compared with 0; it is kept up to this many ms.
PathProgressCap == 2000

\* updateCrossing following the alternative trajectory whatever the turn type.
updateCrossingAlwaysTurns(car, dt) ==
    LET c == followAlternativeTrajectory(car, dt)
        d == IF ~c.isInIntersection /\ c.pathProgress > 0
             THEN [c EXCEPT !.state = "exiting"] ELSE c
    IN [d EXCEPT !.pathProgress = Min(PathProgressCap, @ + dt)]

\* updateCrossing finishing the vehicle as soon as it has left the footprint.
updateCrossingCompletes(car, dt) ==
    LET c == IF car.turnType # "straight"
             THEN followAlternativeTrajectory(car, dt)
             ELSE [car EXCEPT !.speed = Min((car.maxSpeed * 12) \div 10,
                                            car.speed + (M(15) * dt) \div 1000)]
        d == IF ~c.isInIntersection /\ c.pathProgress > 0
             THEN [c EXCEPT !.state = "completed"] ELSE c
    IN [d EXCEPT !.pathProgress = Min(PathProgressCap, @ + dt)]

updateCrossing(car, dt) ==
    LET c == IF car.turnType # "straight"
             THEN followAlternativeTrajectory(car, dt)
             ELSE [car EXCEPT !.speed = Min((car.maxSpeed * 12) \div 10,
                                            car.speed + (M(15) * dt) \div 1000)]
        d == IF ~c.isInIntersection /\ c.pathProgress > 0
             THEN [c EXCEPT !.state = "exiting"] ELSE c
    IN [d EXCEPT !.pathProgress = Min(PathProgressCap, @ + dt)]

\* CONFIG.TURN_DELAYS[turnType] || 0, on the clock's scale.
TURN_DELAY == 1

\* The direction Car.getExitPosition returns for (fromDirection, turnType).
getExitDirection(fromDirection, turnType) ==
    LET row == CASE fromDirection = NORTH -> <<SOUTH, EAST, WEST>>
                 [] fromDirection = SOUTH -> <<NORTH, WEST, EAST>>
                 [] fromDirection = EAST -> <<WEST, NORTH, SOUTH>>
                 [] OTHER -> <<EAST, SOUTH, NORTH>>
    IN CASE turnType = "straight" -> row[1]
         [] turnType = "left" -> row[2]
         [] OTHER -> row[3]

\* The pose and heading set here are recomputed from (roadId, u, v) by
\* updatePixelPosition right after; roadId is not assigned.
updateTurning(car, dt, t) ==
    IF t - car.turnStartTime >= TURN_DELAY
    THEN [car EXCEPT !.fromDirection = getExitDirection(car.fromDirection, car.turnType),
                     !.isHidden = FALSE,
                     !.speed = car.maxSpeed,
                     !.state = "exiting",
                     !.turnStartTime = NULL]
    ELSE car

updateExiting(car, dt) ==
    LET c == [car EXCEPT !.speed = car.maxSpeed]
    IN IF c.u >= roadLen THEN [c EXCEPT !.state = "completed"] ELSE c

\* this.u += this.speed * dt, for a vehicle that moves and is not hidden.
advanceU(car, dt) ==
    IF car.speed > 0 /\ ~car.isHidden
    THEN [car EXCEPT !.u = @ + (car.speed * dt) \div 1000] ELSE car

\* this.v += this.dvdt * dt, kept within the lanes of the road the vehicle
\* was on when the update began.
advanceV(car, dt, lanes) ==
    IF car.dvdt # 0
    THEN [car EXCEPT !.v = Max(0, Min(lanes - 1, @ + (car.dvdt * dt) \div 1000))]
    ELSE car

\* The switch over this.state.
updateByState(car, dt, lights, allCars, t) ==
    CASE car.state = "approaching" -> updateApproaching(car, dt, lights, allCars, t)
      [] car.state = "waiting" -> updateWaiting(car, dt, lights, t)
      [] car.state = "crossing" -> updateCrossing(car, dt)
      [] car.state = "turning" -> updateTurning(car, dt, t)
      [] car.state = "exiting" -> updateExiting(car, dt)
      [] OTHER -> car

\* updatePhysicalMovement without the early return for a road that is not found.
updatePhysicalMovementAnyRoad(car, dt, lights, allCars, t) ==
    advanceV(advanceU(updateByState(car, dt, lights, allCars, t), dt), dt, nLanes(car.roadId))

updatePhysicalMovement(car, dt, lights, allCars, t) ==
    IF car.roadId \notin ROADS THEN car
    ELSE advanceV(advanceU(updateByState(car, dt, lights, allCars, t), dt), dt, nLanes(car.roadId))

\* The footprint test on the pose updatePixelPosition has just computed.
\* was (history) keeps the state the vehicle had when the update began.
setIsInIntersection(car, was) ==
    [car EXCEPT !.isInIntersection = isInIntersection(car.roadId, car.u),
                !.was = was]

\* Car.update: the movement, then the pose and the footprint test on it.
CarUpdate(car, dt, lights, allCars, t) ==
    setIsInIntersection(updatePixelPosition(updatePhysicalMovement(car, dt, lights, allCars, t)),
                        car.state)

\* -------------------------------------------------------------- CarManager
isCompleted(car) == car.state = "completed"

\* The test of spawnCar: a live vehicle of the same entry direction whose pose
\* is closer than 60 pixels to the direction's spawn point.
\* tooClose with the clearance halved.
tooCloseHalf(cs, direction) ==
    \E i \in 1..Len(cs) :
        /\ cs[i].fromDirection = direction
        /\ getDistanceToSpawnPoint(cs[i], direction) < 30

tooClose(cs, direction) ==
    \E i \in 1..Len(cs) :
        /\ cs[i].fromDirection = direction
        /\ getDistanceToSpawnPoint(cs[i], direction) < 60

\* spawnCar drawing the lane from 1..2 instead of 0..1.
spawnCarNextLane(cs, id, direction, lane, turnChance) ==
    IF ~tooClose(cs, direction)
    THEN [cars |-> Append(cs, NewCar(id, direction, lane + 1,
                                     getRoadIdFromDirection(direction), turnChance)),
          nextCarId |-> id + 1]
    ELSE [cars |-> cs, nextCarId |-> id]

\* spawnCar putting the new vehicle at the front of this.cars (unshift).
spawnCarUnshift(cs, id, direction, lane, turnChance) ==
    IF ~tooClose(cs, direction)
    THEN [cars |-> << NewCar(id, direction, lane,
                             getRoadIdFromDirection(direction), turnChance) >> \o cs,
          nextCarId |-> id + 1]
    ELSE [cars |-> cs, nextCarId |-> id]

\* CarManager.spawnCar with its three random draws as arguments: the
\* population and id counter after the attempt.
spawnCar(cs, id, direction, lane, turnChance) ==
    IF ~tooClose(cs, direction)
    THEN [cars |-> Append(cs, NewCar(id, direction, lane,
                                     getRoadIdFromDirection(direction), turnChance)),
          nextCarId |-> id + 1]
    ELSE [cars |-> cs, nextCarId |-> id]

\* The forEach without car.maxSpeed = this.settings.CAR_SPEED.
RECURSIVE updateCarsKeepSpeed(_, _, _, _, _, _)
updateCarsKeepSpeed(cs, i, dt, lights, carSpeed, t) ==
    IF i > Len(cs) THEN cs
    ELSE updateCarsKeepSpeed([cs EXCEPT ![i] = CarUpdate(cs[i], dt, lights, cs, t)],
                             i + 1, dt, lights, carSpeed, t)

\* this.cars.forEach from index i on: each vehicle takes the speed setting and
\* is updated against the population as it stands at that moment.
RECURSIVE updateCars(_, _, _, _, _, _)
updateCars(cs, i, dt, lights, carSpeed, t) ==
    IF i > Len(cs) THEN cs
    ELSE LET withSpeed == [cs EXCEPT ![i].maxSpeed = carSpeed]
         IN updateCars([withSpeed EXCEPT ![i] = CarUpdate(withSpeed[i], dt, lights, withSpeed, t)],
                       i + 1, dt, lights, carSpeed, t)

\* The callback invocations of one sweep, in order: which vehicle, in which
\* state, and whether it was still in the population (this.cars) at the call.
notifyCompleted(completedCars, population, callback) ==
    IF callback
    THEN [k \in 1..Len(completedCars) |->
            [id |-> completedCars[k].id,
             state |-> completedCars[k].state,
             inPopulation |-> \E j \in 1..Len(population) :
                                  population[j].id = completedCars[k].id]]
    ELSE << >>

\* The filter's result dropped instead of assigned to this.cars.
removeCompletedDropped(cs) == cs

removeCompleted(cs) == SelectSeq(cs, LAMBDA car : ~isCompleted(car))

\* The sweep with the filter run before the callbacks.
sweepFilterFirst(cs, callback) ==
    LET completedCars == SelectSeq(cs, isCompleted)
    IN [called |-> notifyCompleted(completedCars, removeCompleted(cs), callback),
        retired |-> [k \in 1..Len(completedCars) |->
                        [id |-> completedCars[k].id, state |-> completedCars[k].state,
                         was |-> completedCars[k].was,
                         waitStartTime |-> completedCars[k].waitStartTime]],
        cars |-> removeCompleted(cs)]

\* "Remove completed cars": the callbacks, then the filter.
sweep(cs, callback) ==
    LET completedCars == SelectSeq(cs, isCompleted)
    IN [called |-> notifyCompleted(completedCars, cs, callback),
        retired |-> [k \in 1..Len(completedCars) |->
                        [id |-> completedCars[k].id, state |-> completedCars[k].state,
                         was |-> completedCars[k].was,
                         waitStartTime |-> completedCars[k].waitStartTime]],
        cars |-> removeCompleted(cs)]

\* The spawn test written ">" instead of ">=".
spawnDueStrict(timer, rate) == timer * rate > 10000 * 100

\* spawnTimer >= 10000 / CAR_SPAWN_RATE, the quotient a real number (Infinity
\* for a rate of 0), with the rate in hundredths.
spawnDue(timer, rate) == timer * rate >= 10000 * 100

\* ------------------------------------------------------------- road geometry
\* The geometry constants of CONFIG and the centre the Intersection is built
\* with, in hundredths of a metre: centerXPhys, centerYPhys, OFFSET_MAIN,
\* OFFSET_SEC, OFFSET_20_TARGET, RADIUS_RIGHT, RADIUS_LEFT and CAR_LENGTH.
Geometry(cx, cy, offsetMain, offsetSec, offset20Target, radiusRight, radiusLeft, carLength) ==
    [ centerXPhys |-> cx, centerYPhys |-> cy, OFFSET_MAIN |-> offsetMain,
      OFFSET_SEC |-> offsetSec, OFFSET_20_TARGET |-> offset20Target,
      RADIUS_RIGHT |-> radiusRight, RADIUS_LEFT |-> radiusLeft, CAR_LENGTH |-> carLength ]

DEFAULT_GEOMETRY == Geometry(M(200), M(200), 416, 416, M(8), M(6), M(12), M(5))

GeometrySet ==
    { Geometry(c, c, offsetMain, offsetSec, offset20Target, radiusRight, M(12), M(5)) :
        c \in {0, M(200)}, offsetMain \in {416, M(7)}, offsetSec \in {416, 350},
        offset20Target \in {M(8), M(10)}, radiusRight \in {M(6), M(10)} }

\* road.traj of the six roads: (x(u), y(u)).
traj(g, roadId, u) ==
    CASE roadId = EAST_BOUND ->
            << g.centerXPhys + u - roadLen \div 2, g.centerYPhys - g.OFFSET_MAIN >>
      [] roadId = WEST_BOUND ->
            << g.centerXPhys - u + roadLen \div 2, g.centerYPhys + g.OFFSET_MAIN >>
      [] roadId = NORTH_BOUND ->
            << g.centerXPhys + g.OFFSET_SEC,
               g.centerYPhys - g.OFFSET_20_TARGET - g.RADIUS_RIGHT - roadLen + u >>
      [] roadId = NORTH_EXIT ->
            << g.centerXPhys - g.OFFSET_SEC,
               g.centerYPhys + g.OFFSET_20_TARGET + g.RADIUS_RIGHT + u >>
      [] roadId = SOUTH_BOUND ->
            << g.centerXPhys - g.OFFSET_SEC,
               g.centerYPhys + g.OFFSET_20_TARGET + g.RADIUS_RIGHT + roadLen - u >>
      [] OTHER ->
            << g.centerXPhys + g.OFFSET_SEC,
               g.centerYPhys - g.OFFSET_20_TARGET - g.RADIUS_RIGHT - u >>

offsetSource(g, fromRoadId) == IF fromRoadId < 2 THEN g.OFFSET_MAIN ELSE g.OFFSET_SEC

\* (trajRight_x(u), trajRight_y(u)) at u = umin, where urel = 0: the arc branch
\* with cos(0) = 1 and sin(0) = 0.
trajRightAtUmin(g, fromRoadId) ==
    << (g.centerXPhys + offsetSource(g, fromRoadId) + g.RADIUS_RIGHT) - g.RADIUS_RIGHT * 1,
       (g.centerYPhys - g.OFFSET_20_TARGET - g.RADIUS_RIGHT) + g.RADIUS_RIGHT * 0 >>

\* (trajLeft_x(u), trajLeft_y(u)) at u = umin: straightSec = lenLeft -
\* CONFIG.LEN_LEFT = 0, so urel = 0 is on the arc branch.
trajLeftAtUmin(g, fromRoadId) ==
    << (g.centerXPhys + offsetSource(g, fromRoadId) - g.RADIUS_LEFT) + g.RADIUS_LEFT * 1,
       (g.centerYPhys - g.OFFSET_20_TARGET - g.RADIUS_LEFT) + g.RADIUS_LEFT * 0 >>

\* (cos, sin) of phi + pi/2 for the tangent angle phi of a road.
normalOf(roadId) ==
    CASE get_phi(roadId) = "0" -> << 0, 1 >>
      [] get_phi(roadId) = "pi" -> << 0, -1 >>
      [] get_phi(roadId) = "pi/2" -> << -1, 0 >>
      [] OTHER -> << 1, 0 >>

\* Intersection.getVehiclePosition for a road that is found, in hundredths of
\* a pixel; v - 0.5 * (nLanes - 1) is taken in halves.
getVehiclePosition(g, roadId, u, v) ==
    LET uCenterPhys == u - g.CAR_LENGTH \div 2
        vCenterPhys == (M(LANE_WIDTH) * (2 * v - (nLanes(roadId) - 1))) \div 2
        p == traj(g, roadId, uCenterPhys)
        n == normalOf(roadId)
    IN << (p[1] + vCenterPhys * n[1]) * scale, (0 - (p[2] + vCenterPhys * n[2])) * scale >>

\* No evaluation recorded.
NoProbe == [config |-> DEFAULT_GEOMETRY, kind |-> "none", roadId |-> 0,
            before |-> << 0, 0 >>, after |-> << 0, 0 >>]

\* No lookup recorded: ids and indexes start at 1.
NoLookup == [caller |-> 0, carAhead |-> 0]

TypeOK ==
    /\ cars \in Seq([id : Nat, fromDirection : DIRECTIONS, toDirection : DIRECTIONS,
                     turnType : TURN_TYPES, lane : {0, 1}, roadId : Nat, u : Nat,
                     v : Nat, dvdt : {0}, speed : Nat, maxSpeed : Nat,
                     state : {"approaching", "waiting", "crossing", "turning",
                              "exiting", "completed"},
                     waitStartTime : Nat, totalWaitTime : Nat,
                     isInIntersection : BOOLEAN, pathProgress : Nat,
                     turnStartTime : Nat, isHidden : BOOLEAN, angle : ANGLES,
                     was : {"constructed", "approaching", "waiting", "crossing",
                            "turning", "exiting", "completed"}])
    /\ nextCarId \in Nat
    /\ spawnTimer \in Nat
    /\ onCarCompleted \in BOOLEAN
    /\ lightStates \in LightMaps
    /\ now \in 1..MaxNow
    /\ notified \subseteq Nat
    /\ lookup \in [caller : Nat, carAhead : Nat]
    /\ probe.config \in GeometrySet

\* new CarManager(intersection); the signal starts all-red.
Init ==
    /\ cars = << >>
    /\ nextCarId = 1
    /\ spawnTimer = 0
    /\ settings = DEFAULT_SETTINGS
    /\ onCarCompleted = FALSE
    /\ lightStates = LightMap("RED", "RED")
    /\ now = 1
    /\ attempt = [direction |-> "none", created |-> FALSE]
    /\ retired = << >>
    /\ called = << >>
    /\ notified = {}
    /\ lookup = NoLookup
    /\ probe = NoProbe

\* The end of CarManager.update: the sweep's result becomes the population;
\* retired, called and notified (history) record whom the sweep removed and
\* whom it reported.
assignSwept(swept) ==
    /\ cars' = swept.cars
    /\ retired' = swept.retired
    /\ called' = swept.called
    /\ notified' = notified \cup {swept.called[k].id : k \in 1..Len(swept.called)}

\* CarManager.update(deltaTime, lightStates) with the signal's current state,
\* spawnCar's random draws and the clock reading t as inputs; ids up to maxCars
\* and stations up to MaxU are explored.
update(dt, direction, lane, turnChance, t, maxCars) ==
    LET timer == spawnTimer + dt
        due == spawnDue(timer, settings.CAR_SPAWN_RATE)
        spawned == IF due THEN spawnCar(cars, nextCarId, direction, lane, turnChance)
                   ELSE [cars |-> cars, nextCarId |-> nextCarId]
    IN /\ \A i \in 1..Len(cars) : cars[i].u <= M(MaxU)
       /\ spawned.nextCarId <= maxCars + 1
       /\ assignSwept(sweep(updateCars(spawned.cars, 1, dt, lightStates,
                                       settings.CAR_SPEED, t),
                            onCarCompleted))
       /\ nextCarId' = spawned.nextCarId
       /\ spawnTimer' = IF due THEN 0 ELSE Min(timer, MaxTimer)
       /\ attempt' = IF due THEN [direction |-> direction,
                                  created |-> spawned.nextCarId # nextCarId]
                     ELSE [direction |-> "none", created |-> FALSE]
       /\ now' = t
       /\ UNCHANGED <<settings, onCarCompleted, lightStates, lookup, probe>>

\* One tick of dt ms: one in which no spawn is due, or one that attempts a
\* spawn with its draws taken from dirs, lanes and chances.
TickWith(dt, dirs, lanes, chances, maxCars) ==
    \E t \in now..Min(now + 1, MaxNow) :
        \/ /\ ~spawnDue(spawnTimer + dt, settings.CAR_SPAWN_RATE)
           /\ update(dt, NORTH, 0, 0, t, maxCars)
        \/ /\ spawnDue(spawnTimer + dt, settings.CAR_SPAWN_RATE)
           /\ \E direction \in dirs, lane \in lanes, turnChance \in chances :
                  update(dt, direction, lane, turnChance, t, maxCars)

TickOver(dts, dirs, lanes, chances, maxCars) ==
    \E dt \in dts : TickWith(dt, dirs, lanes, chances, maxCars)

\* The signal source shows another picture, one of maps.
SignalChangeOver(maps) ==
    /\ \E lights \in maps \ {lightStates} : lightStates' = lights
    /\ UNCHANGED <<cars, nextCarId, spawnTimer, settings, onCarCompleted, now,
                   attempt, retired, called, notified, lookup, probe>>

\* reset() leaving the spawn timer as it is.
ResetKeepsTimer ==
    /\ cars' = << >>
    /\ nextCarId' = 1
    /\ attempt' = [direction |-> "none", created |-> FALSE]
    /\ retired' = << >>
    /\ called' = << >>
    /\ notified' = {}
    /\ UNCHANGED <<spawnTimer, settings, onCarCompleted, lightStates, now, lookup, probe>>

\* CarManager.reset().
Reset ==
    /\ cars' = << >>
    /\ nextCarId' = 1
    /\ spawnTimer' = 0
    /\ attempt' = [direction |-> "none", created |-> FALSE]
    /\ retired' = << >>
    /\ called' = << >>
    /\ notified' = {}
    /\ UNCHANGED <<settings, onCarCompleted, lightStates, now, lookup, probe>>

\* CarManager.initialize(settings).
Initialize ==
    \E s \in SettingsSet :
        /\ settings' = s
        /\ cars' = << >>
        /\ nextCarId' = 1
        /\ spawnTimer' = 0
        /\ attempt' = [direction |-> "none", created |-> FALSE]
        /\ retired' = << >>
        /\ called' = << >>
        /\ notified' = {}
        /\ UNCHANGED <<onCarCompleted, lightStates, now, lookup, probe>>

\* CarManager.updateSettings(settings), with a snapshot of set.
UpdateSettingsOver(set) ==
    \E s \in set \ {settings} :
        /\ settings' = s
        /\ UNCHANGED <<cars, nextCarId, spawnTimer, onCarCompleted, lightStates, now,
                       attempt, retired, called, notified, lookup, probe>>

\* The owner assigns the onCarCompleted field (null after construction).
SetOnCarCompleted ==
    /\ onCarCompleted = FALSE
    /\ onCarCompleted' = TRUE
    /\ UNCHANGED <<cars, nextCarId, spawnTimer, settings, lightStates, now,
                   attempt, retired, called, notified, lookup, probe>>

\* A vehicle asks for the car ahead of it (Car.checkForCarAhead against
\* carManager.getCars()); the result is an index into the population, 0 for null.
LookupAhead ==
    /\ \E i \in 1..Len(cars) :
           lookup' = [caller |-> cars[i].id, carAhead |-> checkForCarAhead(cars[i], cars)]
    /\ UNCHANGED <<cars, nextCarId, spawnTimer, settings, onCarCompleted, lightStates,
                   now, attempt, retired, called, notified, probe>>

\* The manager as constructed, holding the population cs, built earlier.
InitPopulated(cs) ==
    /\ cars = cs
    /\ nextCarId = Len(cs) + 1
    /\ spawnTimer = 0
    /\ settings = DEFAULT_SETTINGS
    /\ onCarCompleted = FALSE
    /\ lightStates = LightMap("RED", "RED")
    /\ now = 1
    /\ attempt = [direction |-> "none", created |-> FALSE]
    /\ retired = << >>
    /\ called = << >>
    /\ notified = {}
    /\ lookup = NoLookup
    /\ probe = NoProbe

\* ---------------------------------------------------------- specifications
\* One vehicle between resets, short and long ticks, every draw and signal.
Tick == TickOver(DeltaTimes, SpawnDirections, SpawnLanes, TurnChances, 1)
SignalChange == SignalChangeOver(LightMaps)
UpdateSettings == UpdateSettingsOver(SettingsSet)

Next ==
    \/ Tick
    \/ SignalChange
    \/ UpdateSettings
    \/ SetOnCarCompleted
    \/ Reset
    \/ Initialize

Spec == Init /\ [][Next]_vars

\* Two vehicles on the north and east approaches, short ticks only; left
\* turners and straight-through vehicles, the north/south signal changing,
\* the manager reset at any time.
FollowDirections == {NORTH, EAST}
FollowLanes == {0}
FollowChances == {10, 90}
FollowLightMaps == {LightMap("RED", "RED"), LightMap("GREEN", "RED")}
FollowSettings == {DEFAULT_SETTINGS, SETTINGS_OFF, SETTINGS_FAST}

TickFollow == TickOver(ShortDeltaTimes, FollowDirections, FollowLanes, FollowChances, MaxCars)
SignalChangeFollow == SignalChangeOver(FollowLightMaps)
UpdateSettingsFollow == UpdateSettingsOver(FollowSettings)

NextFollow ==
    \/ TickFollow
    \/ SignalChangeFollow
    \/ UpdateSettingsFollow
    \/ Reset

SpecFollow == Init /\ [][NextFollow]_vars

\* One vehicle under a fair tick source: it enters from the north, a right
\* turner or straight through; one-second ticks; the signal goes to green for
\* every approach and stays there, the most favourable input for a vehicle.
FairDeltaTimes == {1000}
FairDirections == {NORTH}
FairChances == {40, 90}
FairLightMaps == {LightMap("GREEN", "GREEN")}

TickFair == TickOver(FairDeltaTimes, FairDirections, FollowLanes, FairChances, 1)
SignalChangeFair == SignalChangeOver(FairLightMaps)

NextFair ==
    \/ TickFair
    \/ SignalChangeFair
    \/ UpdateSettings

\* The animation loop calls update on every frame.
SpecFair == Init /\ [][NextFair]_vars /\ WF_vars(TickFair)

\* The car-ahead lookup on its own: three vehicles, each on the north or the
\* east entry road at one of three stations, in any order in the population.
AheadDirections == {NORTH, EAST}
AheadStations == {M(10), M(30), M(50)}
AheadCar(id, direction, u) ==
    [NewCar(id, direction, 0, getRoadIdFromDirection(direction), 90) EXCEPT !.u = u]

InitAhead ==
    \E d1, d2, d3 \in AheadDirections, u1, u2, u3 \in AheadStations :
        InitPopulated(<< AheadCar(1, d1, u1), AheadCar(2, d2, u2), AheadCar(3, d3, u3) >>)

NextAhead == LookupAhead

SpecAhead == InitAhead /\ [][NextAhead]_vars

\* The end of a straight-through run: a vehicle that entered from any
\* direction stands one unit before the end of its road, exiting at full
\* speed; ticks of one and of two seconds (10 and 20 units at CAR_SPEED), a
\* second vehicle spawning behind it.
ExitDeltaTimes == {1000, 2000}
ExitChances == {90}
ExitingCar(id, direction, lane) ==
  updatePixelPosition(
    [NewCar(id, direction, lane, getRoadIdFromDirection(direction), 90)
        EXCEPT !.u = roadLen - M(1),
               !.maxSpeed = DEFAULT_SETTINGS.CAR_SPEED,
               !.speed = DEFAULT_SETTINGS.CAR_SPEED,
               !.state = "exiting",
               !.pathProgress = PathProgressCap,
               !.was = "exiting"])

InitExit ==
    \E direction \in DIRECTIONS, lane \in SpawnLanes :
        InitPopulated(<< ExitingCar(1, direction, lane) >>)

TickExit == TickOver(ExitDeltaTimes, SpawnDirections, FollowLanes, ExitChances, MaxCars)

NextExit ==
    \/ TickExit
    \/ SignalChangeFollow
    \/ UpdateSettings

SpecExit == InitExit /\ [][NextExit]_vars

\* One vehicle from the north while the settings snapshot is replaced, between
\* the default one, one with another speed and another spawn rate, and the
\* one that switches spawning off.
SpeedSettings == {DEFAULT_SETTINGS, SETTINGS_SLOW, SETTINGS_OFF}
SpeedChances == {90}

TickSettings == TickOver(ShortDeltaTimes, FairDirections, FollowLanes, SpeedChances, 1)
UpdateSettingsSpeed == UpdateSettingsOver(SpeedSettings)

NextSettings ==
    \/ TickSettings
    \/ SignalChangeFollow
    \/ UpdateSettingsSpeed
    \/ SetOnCarCompleted
    \/ Reset

SpecSettings == Init /\ [][NextSettings]_vars

\* A vehicle constructed with a roadId that names no road (the constructor
\* takes any roadId), first in the population, and a vehicle on its entry road
\* behind it in the population; short ticks, the signal and the settings
\* changing.  Spawn attempts for the first vehicle's direction are rejected:
\* it keeps the pose of the spawn point.
UNRESOLVED_ROAD == 9
LostDirections == {NORTH, EAST}
LostStations == {M(10), M(50)}
LostCar(id, direction, lane) == NewCar(id, direction, lane, UNRESOLVED_ROAD, 90)

InitLost ==
    \E d1, d2 \in LostDirections, lane \in SpawnLanes, u2 \in LostStations :
        InitPopulated(<< LostCar(1, d1, lane), AheadCar(2, d2, u2) >>)

TickLost == TickOver(ShortDeltaTimes, LostDirections, FollowLanes, SpeedChances, MaxCars)

NextLost ==
    \/ TickLost
    \/ SignalChangeFollow
    \/ UpdateSettingsFollow

SpecLost == InitLost /\ [][NextLost]_vars

\* ------------------------------------------------------------ properties
Has(cs, id) == \E i \in 1..Len(cs) : cs[i].id = id

\* The step is reset() or initialize().
ResetStep ==
    /\ cars' = << >> /\ nextCarId' = 1 /\ spawnTimer' = 0
    /\ attempt'.direction = "none"

\* The step is one CarManager.update: every other operation changes the
\* signal, the settings or the callback, or resets the manager.
AnyUpdateStep ==
    /\ lightStates' = lightStates
    /\ settings' = settings
    /\ onCarCompleted' = onCarCompleted
    /\ ~ResetStep

Transitions ==
    { <<"approaching", "waiting">>, <<"approaching", "crossing">>,
      <<"waiting", "crossing">>, <<"crossing", "exiting">>,
      <<"turning", "exiting">>, <<"exiting", "completed">> }

\* C1: in every step, a vehicle that is in the population before and after
\* either keeps its state or makes one of the six listed transitions; a
\* vehicle that enters the population began its first update in approaching
\* and is approaching or waiting after it; a vehicle that leaves (other than
\* by a reset) was exiting, is listed as completed, and is never seen again.
C1_StateTransitions ==
    [][ /\ \A i \in 1..Len(cars), j \in 1..Len(cars') :
              cars[i].id = cars'[j].id =>
                  \/ cars'[j].state = cars[i].state
                  \/ <<cars[i].state, cars'[j].state>> \in Transitions
        /\ \A j \in 1..Len(cars') :
              ~Has(cars, cars'[j].id) =>
                  /\ cars'[j].was = "approaching"
                  /\ cars'[j].state \in {"approaching", "waiting"}
        /\ \A i \in 1..Len(cars) :
              ~Has(cars', cars[i].id) =>
                  \/ ResetStep
                  \/ /\ cars[i].state = "exiting"
                     /\ \E k \in 1..Len(retired') :
                            /\ retired'[k].id = cars[i].id
                            /\ retired'[k].state = "completed"
      ]_vars

\* A vehicle has just left the footprint: crossing before the update, exiting after.
C1_Witness ==
    \E i \in 1..Len(cars) : cars[i].was = "crossing" /\ cars[i].state = "exiting"

\* C2: no vehicle of the live population is completed.
C2_NoCompletedInPopulation ==
    \A i \in 1..Len(cars) : cars[i].state # "completed"

\* The last update completed a vehicle and the population no longer holds it.
C2_Witness ==
    /\ retired # << >>
    /\ \A k \in 1..Len(retired) :
           retired[k].state = "completed" /\ ~Has(cars, retired[k].id)

\* C3: in every update, each callback invocation is for a vehicle that is
\* completed, still in the population at the call and gone after the update,
\* that was not notified before and is notified once; and with a callback
\* registered every vehicle the update removes is notified.
C3_CallbackOncePerCompleted ==
    [][ AnyUpdateStep =>
          /\ \A k \in 1..Len(called') :
                /\ called'[k].state = "completed"
                /\ called'[k].inPopulation
                /\ called'[k].id \notin notified
                /\ ~Has(cars', called'[k].id)
                /\ \A m \in 1..Len(called') : called'[m].id = called'[k].id => m = k
          /\ onCarCompleted =>
                \A i \in 1..Len(cars) :
                    ~Has(cars', cars[i].id) =>
                        \E k \in 1..Len(called') : called'[k].id = cars[i].id
      ]_vars

\* The last update invoked the callback for a vehicle it then removed.
C3_Witness ==
    /\ called # << >>
    /\ \A k \in 1..Len(called) : called[k].id \in notified /\ ~Has(cars, called[k].id)

\* C5: in every update, a vehicle that is waiting when it begins is, after
\* it, still waiting with speed 0 at the same station if its direction's light
\* is RED, and crossing with no wait-start timestamp if it is GREEN or YELLOW.
C5_WaitingUntilGreen ==
    [][ AnyUpdateStep =>
          \A i \in 1..Len(cars) :
              cars[i].state = "waiting" =>
                  \E j \in 1..Len(cars') :
                      /\ cars'[j].id = cars[i].id
                      /\ IF lightStates[cars[i].fromDirection] = "RED"
                         THEN /\ cars'[j].state = "waiting"
                              /\ cars'[j].speed = 0
                              /\ cars'[j].u = cars[i].u
                         ELSE /\ cars'[j].state = "crossing"
                              /\ cars'[j].waitStartTime = NULL
      ]_vars

\* A vehicle that waited at a red light has been released by a YELLOW tick.
C5_Witness ==
    \E i \in 1..Len(cars) :
        /\ cars[i].was = "waiting" /\ cars[i].state = "crossing"
        /\ cars[i].totalWaitTime > 0 /\ cars[i].waitStartTime = NULL
        /\ lightStates[cars[i].fromDirection] = "YELLOW"

\* other is ahead of car on car's road and closer than the following gap.
AheadWithinGap(other, car) ==
    /\ other.id # car.id
    /\ other.roadId = car.roadId
    /\ other.u > car.u
    /\ other.u - car.u < M(35)

\* C4: in every update under a RED light for its direction, a vehicle that
\* begins it approaching with max(0, 100 - u) <= 30 is waiting after it, with
\* speed 0 and its station unchanged; and if no other vehicle, where it stood
\* before or stands after the update, is ahead of it within the gap, its
\* wait-start timestamp is the clock reading of the update.
C4_StopAtRed ==
    [][ AnyUpdateStep =>
          \A i \in 1..Len(cars) :
              ( /\ cars[i].state = "approaching"
                /\ Max(0, M(100) - cars[i].u) <= M(30)
                /\ lightStates[cars[i].fromDirection] = "RED" ) =>
                  \E j \in 1..Len(cars') :
                      /\ cars'[j].id = cars[i].id
                      /\ cars'[j].state = "waiting"
                      /\ cars'[j].speed = 0
                      /\ cars'[j].u = cars[i].u
                      /\ ( /\ \A m \in 1..Len(cars) : ~AheadWithinGap(cars[m], cars[i])
                           /\ \A n \in 1..Len(cars') : ~AheadWithinGap(cars'[n], cars[i]) )
                         => cars'[j].waitStartTime = now'
      ]_vars

\* The second of two vehicles has stopped for the red light, with the first
\* still in the population, and carries the timestamp of that update.
C4_Witness ==
    /\ Len(cars) = 2
    /\ cars[2].was = "approaching" /\ cars[2].state = "waiting"
    /\ cars[2].speed = 0 /\ cars[2].u >= M(70)
    /\ cars[2].waitStartTime = now
    /\ lightStates[cars[2].fromDirection] = "RED"

\* C6: in every update of a short tick, a vehicle on its entry road that goes
\* from u < 100 to u >= 100, advancing less than 30, does so under a GREEN or
\* YELLOW light for its direction.
C6_ObeySignal ==
    [][ AnyUpdateStep =>
          \A i \in 1..Len(cars), j \in 1..Len(cars') :
              ( /\ cars'[j].id = cars[i].id
                /\ cars[i].roadId = getRoadIdFromDirection(cars[i].fromDirection)
                /\ cars'[j].roadId = cars[i].roadId
                /\ cars[i].u < M(100) /\ cars'[j].u >= M(100)
                /\ cars'[j].u - cars[i].u < M(30) ) =>
                  lightStates[cars[i].fromDirection] \in {"GREEN", "YELLOW"}
      ]_vars

\* C8: in every update of a short tick, two vehicles that are on the same
\* road before and after it, the first behind the second before it, each
\* advancing less than 35, are in the same order after it.
C8_NoOvertaking ==
    [][ AnyUpdateStep =>
          \A a, b \in 1..Len(cars), c, d \in 1..Len(cars') :
              ( /\ cars'[c].id = cars[a].id /\ cars'[d].id = cars[b].id
                /\ cars[a].roadId = cars[b].roadId
                /\ cars'[c].roadId = cars[a].roadId /\ cars'[d].roadId = cars[b].roadId
                /\ cars[a].u < cars[b].u
                /\ cars'[c].u - cars[a].u < M(35)
                /\ cars'[d].u - cars[b].u < M(35) ) =>
                  cars'[c].u < cars'[d].u
      ]_vars

C10_SpawnTimer ==
    [][ AnyUpdateStep =>
          \A dt \in ShortDeltaTimes :
              LET timer == spawnTimer + dt
                  rate == settings.CAR_SPAWN_RATE
                  reached == rate > 0 /\ timer * rate >= 1000000
              IN /\ (attempt'.direction # "none") <=> reached
                 /\ spawnTimer' = IF reached THEN 0 ELSE Min(timer, MaxTimer)
                 /\ attempt'.created => reached
                 /\ nextCarId' \in {nextCarId, nextCarId + 1}
                 /\ attempt'.created <=> nextCarId' = nextCarId + 1
                 /\ Cardinality({j \in 1..Len(cars') : ~Has(cars, cars'[j].id)}) <= 1
      ]_vars

\* A tick twice as long as the spawn interval made one attempt, which was
\* rejected, and the timer is back at 0.
C10_Witness ==
    /\ settings = SETTINGS_FAST
    /\ attempt.direction # "none" /\ ~attempt.created
    /\ spawnTimer = 0 /\ Len(cars) = 1

AheadCandidates(car) ==
    { j \in 1..Len(cars) : /\ cars[j].id # car.id
                           /\ cars[j].roadId = car.roadId
                           /\ cars[j].u - car.u > 0 }

\* C11: a car-ahead lookup returns no vehicle when no other vehicle on the
\* caller's road has a larger u, and otherwise one such vehicle, none of the
\* others being nearer to the caller.
C11_NearestAhead ==
    lookup.caller # 0 =>
        \A i \in 1..Len(cars) :
            cars[i].id = lookup.caller =>
                IF AheadCandidates(cars[i]) = {}
                THEN lookup.carAhead = 0
                ELSE /\ lookup.carAhead \in AheadCandidates(cars[i])
                     /\ \A j \in AheadCandidates(cars[i]) :
                            cars[lookup.carAhead].u <= cars[j].u

\* The caller is last in the population, with both others ahead of it on its
\* road, the nearer one first in the population, which is the one returned.
C11_Witness ==
    /\ lookup.caller = 3 /\ lookup.carAhead = 1
    /\ AheadCandidates(cars[3]) = {1, 2}
    /\ cars[1].u < cars[2].u

\* C12: the lateral position of every vehicle of the population is a lane of
\* the road it is on, between 0 and that road's lane count less one.
C12_LaneWithinRoad ==
    \A i \in 1..Len(cars) :
        /\ cars[i].roadId \in ROADS
        /\ 0 <= cars[i].v /\ cars[i].v <= nLanes(cars[i].roadId) - 1

\* A vehicle spawned in lane 1 has switched to another road in the last update.
C12_Witness ==
    \E i \in 1..Len(cars) :
        /\ cars[i].v = 1 /\ cars[i].was = "crossing"
        /\ cars[i].roadId # getRoadIdFromDirection(cars[i].fromDirection)

\* after.u is the entry station of one of before's road's alternative
\* trajectories plus what after's speed adds in one tick.
ResetToUmin(before, after) ==
    \E k \in 1..Len(setupAlternativeTrajectories(before.roadId)), dt \in DeltaTimes :
        after.u = setupAlternativeTrajectories(before.roadId)[k].umin
                  + (after.speed * dt) \div 1000

\* C13: in every update, a vehicle that stays on its road does not go back
\* in u (it advances by what its speed adds in the tick), and a vehicle is put
\* at the entry station of an alternative trajectory, and advanced from there,
\* exactly if its roadId changes in the update.
C13_StationMonotone ==
    [][ AnyUpdateStep =>
          \A i \in 1..Len(cars), j \in 1..Len(cars') :
              cars'[j].id = cars[i].id =>
                  /\ cars'[j].roadId = cars[i].roadId => cars'[j].u >= cars[i].u
                  /\ cars'[j].roadId # cars[i].roadId <=> ResetToUmin(cars[i], cars'[j])
      ]_vars

\* A turning vehicle has switched roads in the last update and stands at the
\* turn-entry station plus one short tick's advance.
C13_Witness ==
    \E i \in 1..Len(cars) :
        /\ cars[i].was = "crossing" /\ cars[i].speed > 0
        /\ cars[i].roadId # getRoadIdFromDirection(cars[i].fromDirection)
        /\ cars[i].u = u20Target + (cars[i].speed * 2000) \div 1000

\* The road a right turn, and a left turn, from roadId leads to (0 .. 5), as
\* the turn trajectories are set up; 6 where the road has no turn.
RightTurnTo(roadId) ==
    CASE roadId = 0 -> 2 [] roadId = 1 -> 4 [] roadId = 2 -> 0 [] roadId = 4 -> 1 [] OTHER -> 6

LeftTurnTo(roadId) ==
    CASE roadId = 0 -> 3 [] roadId = 1 -> 5 [] roadId = 2 -> 1 [] roadId = 4 -> 0 [] OTHER -> 6

\* The target of the first alternative trajectory that applies to car: the
\* right turn (pushed first) from the last lane within its u range, else the
\* left turn from lane 0 within its u range; 6 for none.
SwitchTarget(car) ==
    IF /\ car.lane = nLanes(car.roadId) - 1
       /\ u20Target <= car.u /\ car.u <= u20Target + LEN_RIGHT
       /\ RightTurnTo(car.roadId) # 6
    THEN RightTurnTo(car.roadId)
    ELSE IF /\ car.lane = 0
            /\ u20Target <= car.u /\ car.u <= u20Target + LEN_LEFT
         THEN LeftTurnTo(car.roadId)
         ELSE 6

\* C14: in every update, a vehicle whose roadId changes began the update in
\* crossing, is not a straight-through vehicle, and is now on the target road
\* of the first alternative trajectory of its former road that contains its u
\* and its lane; a straight-through vehicle is on the road of its entry
\* direction before and after; and a vehicle that enters the population is on
\* the road of its entry direction.
C14_RoadSwitch ==
    [][ AnyUpdateStep =>
          /\ \A i \in 1..Len(cars), j \in 1..Len(cars') :
                cars'[j].id = cars[i].id =>
                    /\ cars'[j].roadId # cars[i].roadId =>
                          /\ cars[i].state = "crossing"
                          /\ cars[i].turnType # "straight"
                          /\ cars'[j].roadId = SwitchTarget(cars[i])
                    /\ cars[i].turnType = "straight" =>
                          /\ cars[i].roadId = getRoadIdFromDirection(cars[i].fromDirection)
                          /\ cars'[j].roadId = cars[i].roadId
          /\ \A j \in 1..Len(cars') :
                ~Has(cars, cars'[j].id) =>
                    cars'[j].roadId = getRoadIdFromDirection(cars'[j].fromDirection)
      ]_vars

\* A left turner from the north, in lane 0, has switched to the west-bound
\* road in the last update.
C14_Witness ==
    \E i \in 1..Len(cars) :
        /\ cars[i].fromDirection = NORTH /\ cars[i].turnType = "left"
        /\ cars[i].lane = 0 /\ cars[i].was = "crossing"
        /\ cars[i].roadId = WEST_BOUND

\* C15: in every update (each tick adds at least one unit to the u of a
\* vehicle at full speed), a straight-through vehicle that begins it exiting
\* at u = road length - 1 with speed = maxSpeed is completed by it and is not
\* in the population after its sweep.
C15_ExitCompletes ==
    [][ AnyUpdateStep =>
          \A i \in 1..Len(cars) :
              ( /\ cars[i].state = "exiting"
                /\ cars[i].turnType = "straight"
                /\ cars[i].u = roadLen - M(1)
                /\ cars[i].speed = cars[i].maxSpeed ) =>
                  /\ ~Has(cars', cars[i].id)
                  /\ \E k \in 1..Len(retired') :
                         retired'[k].id = cars[i].id /\ retired'[k].state = "completed"
      ]_vars

\* C16: after every update, each vehicle of the population, spawned by it or
\* before it, has the maxSpeed of the settings snapshot in force (the one the
\* last updateSettings installed), and the update attempted a spawn exactly if
\* the spawn timer plus the tick reached 10000 / that snapshot's spawn rate.
C16_SettingsTakeEffect ==
    [][ AnyUpdateStep =>
          /\ \A j \in 1..Len(cars') : cars'[j].maxSpeed = settings.CAR_SPEED
          /\ \A dt \in ShortDeltaTimes :
                attempt'.direction # "none"
                    <=> (spawnTimer + dt) * settings.CAR_SPAWN_RATE >= 10000 * 100
      ]_vars

\* Under the slow snapshot a vehicle has just been spawned with a tick left on
\* the default snapshot's interval, and has moved at the slow speed.
C16_Witness ==
    /\ settings = SETTINGS_SLOW
    /\ attempt.created
    /\ Len(cars) = 1
    /\ cars[1].maxSpeed = M(5) /\ cars[1].u = spawnStation + M(10)

\* C17: in every update that spawns no vehicle, a vehicle that begins it
\* approaching decides on the population as it stood when the update began:
\* it is waiting after the update exactly if, on those u values, a vehicle
\* ahead of it on its road is nearer than the gap of 35, or it is within 30 of
\* the stop line under a RED light.
C17_LookupSeesTickStart ==
    [][ (AnyUpdateStep /\ ~attempt'.created) =>
          \A i \in 1..Len(cars), j \in 1..Len(cars') :
              ( cars'[j].id = cars[i].id /\ cars[i].state = "approaching" ) =>
                  ( cars'[j].state = "waiting"
                      <=> \/ \E m \in 1..Len(cars) : AheadWithinGap(cars[m], cars[i])
                          \/ /\ Max(0, M(100) - cars[i].u) <= M(30)
                             /\ lightStates[cars[i].fromDirection] = "RED" )
      ]_vars

\* The step discards the population, or restarts the id counter or the spawn
\* timer, without a sweep having retired anything: what only reset() does
\* where initialize() is not called.
DiscardStep ==
    /\ cars' = << >> /\ retired' = << >>
    /\ cars # << >> \/ nextCarId' < nextCarId \/ spawnTimer' < spawnTimer

\* C18: every step that discards the population leaves it empty with the id
\* counter at 1 and the spawn timer at 0, changes neither the settings
\* snapshot nor the callback, and invokes the callback for no vehicle.
C18_ResetFrame ==
    [][ DiscardStep =>
          /\ cars' = << >>
          /\ nextCarId' = 1
          /\ spawnTimer' = 0
          /\ settings' = settings
          /\ onCarCompleted' = onCarCompleted
          /\ called' = << >>
      ]_vars

\* The manager has been reset after the clock moved on, with a callback
\* registered and the slow snapshot in force; no tick leaves the population
\* empty with the id counter at 1 and the timer at 0.
C18_Witness ==
    /\ cars = << >> /\ nextCarId = 1 /\ spawnTimer = 0
    /\ now > 1
    /\ onCarCompleted /\ settings = SETTINGS_SLOW
    /\ called = << >>

\* C19: in every update, a vehicle whose roadId names no road is in the
\* population afterwards with its state, u, v, speed and road unchanged and
\* still outside the footprint (its pose is not recomputed), and every other
\* vehicle has been updated: it records the state it began the update in and
\* has advanced by what its speed adds in the tick.
C19_UnresolvedRoadSkipped ==
    [][ AnyUpdateStep =>
          \A i \in 1..Len(cars) :
              cars[i].roadId \notin ROADS =>
                  /\ \E j \in 1..Len(cars') :
                        /\ cars'[j].id = cars[i].id
                        /\ cars'[j].state = cars[i].state
                        /\ cars'[j].u = cars[i].u
                        /\ cars'[j].v = cars[i].v
                        /\ cars'[j].speed = cars[i].speed
                        /\ cars'[j].roadId = cars[i].roadId
                        /\ cars'[j].isInIntersection = cars[i].isInIntersection
                  /\ \A m \in 1..Len(cars), n \in 1..Len(cars') :
                        ( cars[m].roadId \in ROADS /\ cars'[n].id = cars[m].id ) =>
                            /\ cars'[n].was = cars[m].state
                            /\ \E dt \in ShortDeltaTimes :
                                   cars'[n].u >= cars[m].u + (cars'[n].speed * dt) \div 1000
      ]_vars

\* After an update the vehicle without a road stands where it was constructed,
\* at speed 0, with the speed setting the update gave it, while the vehicle
\* behind it in the population has moved on.
C19_Witness ==
    /\ Len(cars) = 2
    /\ cars[1].roadId = UNRESOLVED_ROAD /\ cars[1].u = spawnStation
    /\ cars[1].state = "approaching" /\ cars[1].speed = 0
    /\ cars[1].maxSpeed = settings.CAR_SPEED
    /\ cars[2].was = "approaching" /\ cars[2].speed > 0 /\ cars[2].u >= M(70)

\* The direction opposite d.
Opposite(d) ==
    CASE d = NORTH -> SOUTH [] d = SOUTH -> NORTH [] d = EAST -> WEST [] OTHER -> EAST

\* C20: the toDirection of every vehicle of the population is what
\* calculateToDirection gives for its fromDirection and its turnType: the
\* opposite direction for a straight-through vehicle, and another one, a
\* perpendicular direction, for a left or right turner.
C20_DestinationByTurnType ==
    \A i \in 1..Len(cars) :
        /\ cars[i].toDirection = calculateToDirection(cars[i].fromDirection, cars[i].turnType)
        /\ cars[i].turnType = "straight" <=> cars[i].toDirection = Opposite(cars[i].fromDirection)

\* C21: in every update, an approaching vehicle with another vehicle ahead of
\* it on its road within the gap of 35, where that vehicle stood before and
\* where it stands after the update, is waiting after it with speed 0 at the
\* same station, whatever its light, with no wait-start timestamp and its
\* totalWaitTime unchanged; and a vehicle waiting without a wait-start
\* timestamp keeps its totalWaitTime.
C21_SpacingStopNotTimed ==
    [][ AnyUpdateStep =>
          \A i \in 1..Len(cars), j \in 1..Len(cars') :
              cars'[j].id = cars[i].id =>
                  /\ ( /\ cars[i].state = "approaching"
                       /\ \E m \in 1..Len(cars), n \in 1..Len(cars') :
                              /\ cars'[n].id = cars[m].id
                              /\ AheadWithinGap(cars[m], cars[i])
                              /\ AheadWithinGap(cars'[n], cars[i]) ) =>
                        /\ cars'[j].state = "waiting"
                        /\ cars'[j].speed = 0
                        /\ cars'[j].u = cars[i].u
                        /\ cars'[j].waitStartTime = NULL
                        /\ cars'[j].totalWaitTime = cars[i].totalWaitTime
                  /\ ( cars[i].state = "waiting" /\ cars[i].waitStartTime = NULL ) =>
                        cars'[j].totalWaitTime = cars[i].totalWaitTime
      ]_vars

\* The second vehicle has stopped behind the first under a RED light, and
\* carries no wait-start timestamp and no waiting time.
C21_Witness ==
    /\ Len(cars) = 2
    /\ cars[2].was = "approaching" /\ cars[2].state = "waiting"
    /\ AheadWithinGap(cars[1], cars[2])
    /\ lightStates[cars[2].fromDirection] = "RED"
    /\ cars[2].waitStartTime = NULL /\ cars[2].totalWaitTime = 0

\* C22: in every update, a vehicle that begins it waiting with a wait-start
\* timestamp has afterwards a totalWaitTime equal to the clock reading of the
\* update minus that timestamp, and not less than before; a vehicle that
\* begins it in any other state keeps its totalWaitTime.
C22_WaitTimeAccumulates ==
    [][ AnyUpdateStep =>
          \A i \in 1..Len(cars), j \in 1..Len(cars') :
              cars'[j].id = cars[i].id =>
                  /\ ( cars[i].state = "waiting" /\ cars[i].waitStartTime # NULL ) =>
                        /\ cars'[j].totalWaitTime = now' - cars[i].waitStartTime
                        /\ cars'[j].totalWaitTime >= cars[i].totalWaitTime
                  /\ cars[i].state # "waiting" =>
                        cars'[j].totalWaitTime = cars[i].totalWaitTime
      ]_vars

\* A vehicle stopped at a red light on an earlier clock reading is still
\* waiting and has accumulated waiting time since.
C22_Witness ==
    \E i \in 1..Len(cars) :
        /\ cars[i].was = "waiting" /\ cars[i].state = "waiting"
        /\ cars[i].waitStartTime # NULL /\ cars[i].waitStartTime < now
        /\ cars[i].totalWaitTime = now - cars[i].waitStartTime

\* C23: in every step other than a reset, the id counter does not decrease,
\* and it increases, by one, exactly if the update's spawn attempt created a
\* vehicle, which takes the counter's former value as its id; and after every
\* step the ids of the population are below the counter and strictly
\* increasing along the population (so pairwise distinct).
C23_IdCounter ==
    [][ /\ ~ResetStep =>
              /\ nextCarId' >= nextCarId
              /\ nextCarId' # nextCarId =>
                    /\ nextCarId' = nextCarId + 1
                    /\ AnyUpdateStep /\ attempt'.created
                    /\ ~Has(cars, nextCarId)
              /\ \A j \in 1..Len(cars') :
                    ~Has(cars, cars'[j].id) =>
                        cars'[j].id = nextCarId /\ nextCarId' = nextCarId + 1
        /\ \A j \in 1..Len(cars') : cars'[j].id < nextCarId'
        /\ \A j, k \in 1..Len(cars') : j < k => cars'[j].id < cars'[k].id
      ]_vars

\* The second spawn has just been made while the first vehicle is already
\* exiting: the population holds vehicles 1 and 2 in that order.
C23_Witness ==
    /\ Len(cars) = 2 /\ nextCarId = 3
    /\ cars[1].id = 1 /\ cars[2].id = 2
    /\ attempt.created /\ cars[2].was = "approaching" /\ cars[1].state = "exiting"

\* The lane a vehicle of this turn type is committed to on its road.
CommittedLane(turnType, roadId, lane) ==
    CASE turnType = "left" -> 0
      [] turnType = "right" -> nLanes(roadId) - 1
      [] OTHER -> lane

\* C24: after every update a vehicle began in approaching, its lane is 0 if
\* it turns left, the last lane of its road if it turns right, and the lane
\* it had if it goes straight; the same holds after the first update of a
\* vehicle just spawned, whose lane before it is the one it was spawned in.
C24_LaneCommitment ==
    [][ AnyUpdateStep =>
          /\ \A i \in 1..Len(cars), j \in 1..Len(cars') :
                ( cars'[j].id = cars[i].id /\ cars[i].state = "approaching" ) =>
                    cars'[j].lane = CommittedLane(cars[i].turnType, cars'[j].roadId, cars[i].lane)
          /\ \A j \in 1..Len(cars') :
                ~Has(cars, cars'[j].id) =>
                    cars'[j].lane = CommittedLane(cars'[j].turnType, cars'[j].roadId, cars'[j].v)
      ]_vars

\* A right turner spawned in lane 0 is in lane 1 after a tick in approaching.
C24_Witness ==
    \E i \in 1..Len(cars) :
        /\ cars[i].turnType = "right" /\ cars[i].was = "approaching"
        /\ cars[i].v = 0 /\ cars[i].lane = 1

\* The teleport turn on its own: no handler enters it, so the population
\* starts with one vehicle already in turning on its entry road, hidden, its
\* turn begun at the clock's first instant, standing still or at cruising
\* speed; short ticks (the clock moving on with a tick or not), the signal and
\* the settings changing, a second vehicle spawning behind it.
TurningStations == {M(50), M(100)}
TurningSpeeds == {0, DEFAULT_SETTINGS.CAR_SPEED}
TurningCar(id, direction, lane, turnChance, u, speed) ==
  updatePixelPosition(
    [NewCar(id, direction, lane, getRoadIdFromDirection(direction), turnChance)
        EXCEPT !.u = u,
               !.speed = speed,
               !.state = "turning",
               !.turnStartTime = 1,
               !.isHidden = TRUE,
               !.was = "turning"])

InitTurning ==
    \E direction \in DIRECTIONS, lane \in SpawnLanes, turnChance \in TurnChances,
       u \in TurningStations, speed \in TurningSpeeds :
        InitPopulated(<< TurningCar(1, direction, lane, turnChance, u, speed) >>)

TickTurning == TickOver(ShortDeltaTimes, FairDirections, FollowLanes, SpeedChances, MaxCars)

NextTurning ==
    \/ TickTurning
    \/ SignalChangeFollow
    \/ UpdateSettingsFollow

SpecTurning == InitTurning /\ [][NextTurning]_vars /\ WF_vars(TickTurning)

\* C25: in every update, a vehicle that begins it in turning stays in turning
\* with its u unchanged while the clock is less than the turn delay past its
\* turn start; in the first update whose clock has reached the delay, its
\* direction is the exit direction of its turn, its roadId is a road other
\* than the one it turned from (the destination road), it is no longer
\* hidden, its speed is its maxSpeed and its state is exiting.
C25_TurningStep ==
    [][ AnyUpdateStep =>
          \A i \in 1..Len(cars), j \in 1..Len(cars') :
              ( cars'[j].id = cars[i].id /\ cars[i].state = "turning" ) =>
                  IF now' - cars[i].turnStartTime < TURN_DELAY
                  THEN /\ cars'[j].state = "turning"
                       /\ cars'[j].u = cars[i].u
                  ELSE /\ cars'[j].fromDirection
                              = getExitDirection(cars[i].fromDirection, cars[i].turnType)
                       /\ cars'[j].roadId # cars[i].roadId
                       /\ ~cars'[j].isHidden
                       /\ cars'[j].speed = cars'[j].maxSpeed
                       /\ cars'[j].state = "exiting"
      ]_vars

\* C26: no vehicle of the population is in turning, came from turning in the
\* last update, is hidden or has a turn-start timestamp, and no vehicle the
\* last sweep retired was in turning, whatever ticks, signal changes, settings
\* updates and resets came before.
C26_TurningUnreachable ==
    /\ \A i \in 1..Len(cars) :
          /\ cars[i].state # "turning" /\ cars[i].was # "turning"
          /\ ~cars[i].isHidden
          /\ cars[i].turnStartTime = NULL
    /\ \A k \in 1..Len(retired) :
          retired[k].state # "turning" /\ retired[k].was # "turning"

\* A turner has switched road in crossing (where a turn is carried out) and
\* is exiting on the target road.
C26_Witness ==
    \E i \in 1..Len(cars) :
        /\ cars[i].turnType # "straight"
        /\ cars[i].roadId # getRoadIdFromDirection(cars[i].fromDirection)
        /\ cars[i].state = "exiting"
        /\ ~cars[i].isHidden /\ cars[i].turnStartTime = NULL

\* C28: every vehicle of the population whose speed is 0 (just spawned,
\* waiting, or released from waiting and not yet moving) has a heading that is
\* a defined value, the tangent angle of its road at its station.
C28_HeadingAtRest ==
    \A i \in 1..Len(cars) :
        ( cars[i].speed = 0 /\ cars[i].roadId \in ROADS ) =>
            /\ cars[i].angle # "NaN"
            /\ cars[i].angle = get_phi(cars[i].roadId)

\* The road geometry on its own: an Intersection built with one of the
\* geometries; each step evaluates a turn trajectory of a source road at its
\* umin next to the road's primary trajectory at the turn-entry station, or
\* switches a vehicle in crossing onto its turn's target road and takes its
\* position before and after.
TurnSources == {EAST_BOUND, WEST_BOUND, NORTH_BOUND, SOUTH_BOUND}
SwitchStations == {u20Target, u20Target + M(10)}

InitGeometry ==
    /\ cars = << >>
    /\ nextCarId = 1
    /\ spawnTimer = 0
    /\ settings = DEFAULT_SETTINGS
    /\ onCarCompleted = FALSE
    /\ lightStates = LightMap("RED", "RED")
    /\ now = 1
    /\ attempt = [direction |-> "none", created |-> FALSE]
    /\ retired = << >>
    /\ called = << >>
    /\ notified = {}
    /\ lookup = NoLookup
    /\ \E g \in GeometrySet : probe = [NoProbe EXCEPT !.config = g]

EvaluateTurnEntry ==
    /\ \E roadId \in TurnSources, turn \in {"right", "left"} :
           probe' = [ config |-> probe.config, kind |-> "entry", roadId |-> roadId,
                      before |-> traj(probe.config, roadId, u20Target),
                      after |-> IF turn = "right"
                                THEN trajRightAtUmin(probe.config, roadId)
                                ELSE trajLeftAtUmin(probe.config, roadId) ]
    /\ UNCHANGED <<cars, nextCarId, spawnTimer, settings, onCarCompleted, lightStates,
                   now, attempt, retired, called, notified, lookup>>

CrossingCar(id, direction, lane, u) ==
  updatePixelPosition(
    [NewCar(id, direction, lane, getRoadIdFromDirection(direction), 10)
        EXCEPT !.u = u,
               !.speed = DEFAULT_SETTINGS.CAR_SPEED,
               !.state = "crossing",
               !.isInIntersection = TRUE,
               !.was = "crossing"])

SwitchPose ==
    /\ \E direction \in DIRECTIONS, lane \in SpawnLanes, u \in SwitchStations :
           LET car == CrossingCar(1, direction, lane, u)
               switched == followAlternativeTrajectory(car, 1000)
           IN /\ switched.roadId # car.roadId
              /\ probe' = [ config |-> probe.config, kind |-> "switch", roadId |-> car.roadId,
                            before |-> getVehiclePosition(probe.config, car.roadId, car.u, car.v),
                            after |-> getVehiclePosition(probe.config, switched.roadId,
                                                         switched.u, switched.v) ]
    /\ UNCHANGED <<cars, nextCarId, spawnTimer, settings, onCarCompleted, lightStates,
                   now, attempt, retired, called, notified, lookup>>

NextGeometry ==
    \/ EvaluateTurnEntry
    \/ SwitchPose

SpecGeometry == InitGeometry /\ [][NextGeometry]_vars

\* C27: every turn trajectory of every source road, evaluated at its umin,
\* gives the position the road's primary trajectory gives at the turn-entry
\* station 104.16, and a vehicle switched onto its turn's target road has the
\* position right after the switch that it had right before it.
C27_TurnEntryContinuous ==
    probe.kind \in {"entry", "switch"} => probe.after = probe.before

\* Vehicles spawned while the turn rate of the settings snapshot is replaced:
\* the default snapshot, one with turn rate 0 and one with turn rate 1 (both
\* spawning every second), draws of 0.1 and 0.9, the manager reset at any
\* time.
SETTINGS_NO_TURNS == [CAR_SPAWN_RATE |-> 1000, CAR_SPEED |-> M(10), TURN_RATE |-> 0]
TurnRateSettings == {DEFAULT_SETTINGS, SETTINGS_NO_TURNS, SETTINGS_FAST}

TickTurnRate == TickOver(ShortDeltaTimes, FairDirections, FollowLanes, FollowChances, MaxCars)
UpdateSettingsTurnRate == UpdateSettingsOver(TurnRateSettings)

NextTurnRate ==
    \/ TickTurnRate
    \/ SignalChangeFollow
    \/ UpdateSettingsTurnRate
    \/ Reset

SpecTurnRate == Init /\ [][NextTurnRate]_vars

\* C29: in every update, a vehicle that enters the population while the
\* settings snapshot in force (the one the last updateSettings installed) has
\* turn rate 0 goes straight, and one that enters while it has turn rate 1
\* does not go straight.
C29_TurnRateGoverns ==
    [][ AnyUpdateStep =>
          \A j \in 1..Len(cars') :
              ~Has(cars, cars'[j].id) =>
                  /\ settings.TURN_RATE = 0 => cars'[j].turnType = "straight"
                  /\ settings.TURN_RATE = 100 => cars'[j].turnType # "straight"
      ]_vars

\* The road a vehicle was spawned on.
SpawnRoad(car) == getRoadIdFromDirection(car.fromDirection)

\* C30: in every update, a left or right turner that the update completes
\* (it leaves the population through the sweep) is not on its spawn road, and
\* a left or right turner whose roadId the update changes was on its spawn
\* road before: a turner switches road once, from its spawn road, before it
\* completes.
C30_SwitchExactlyOnce ==
    [][ AnyUpdateStep =>
          \A i \in 1..Len(cars) :
              cars[i].turnType # "straight" =>
                  /\ ( /\ ~Has(cars', cars[i].id)
                       /\ \E k \in 1..Len(retired') : retired'[k].id = cars[i].id )
                        => cars[i].roadId # SpawnRoad(cars[i])
                  /\ \A j \in 1..Len(cars') :
                        ( cars'[j].id = cars[i].id /\ cars'[j].roadId # cars[i].roadId )
                            => cars[i].roadId = SpawnRoad(cars[i])
      ]_vars

\* One vehicle from the north, a left turner, a right turner or straight
\* through, while the speed setting is replaced: the default snapshot, and
\* two that switch spawning off, one at the default speed and one at half of
\* it; the north/south signal changing, the manager reset at any time.
SETTINGS_CRAWL == [CAR_SPAWN_RATE |-> 0, CAR_SPEED |-> M(5), TURN_RATE |-> DEFAULT_TURN_RATE]
SlowDownSettings == {DEFAULT_SETTINGS, SETTINGS_OFF, SETTINGS_CRAWL}

UpdateSettingsSlowDown == UpdateSettingsOver(SlowDownSettings)
TickSlowDown == TickOver(ShortDeltaTimes, FairDirections, FollowLanes, TurnChances, 1)

NextSlowDown ==
    \/ TickSlowDown
    \/ SignalChangeFollow
    \/ UpdateSettingsSlowDown
    \/ Reset

SpecSlowDown == Init /\ [][NextSlowDown]_vars

\* C31: every vehicle of the population has 0 <= speed <= 1.2 x its maxSpeed
\* (the speed setting the last update gave it), and every vehicle in waiting
\* has speed 0.
C31_SpeedWithinCap ==
    \A i \in 1..Len(cars) :
        /\ 0 <= cars[i].speed
        /\ 10 * cars[i].speed <= 12 * cars[i].maxSpeed
        /\ cars[i].state = "waiting" => cars[i].speed = 0

\* C32: a vehicle of the population whose wait-start timestamp is set is in
\* waiting (it is unset in approaching, crossing and exiting), and no vehicle
\* the last sweep removed as completed, and handed to the completion
\* callback, has a wait-start timestamp set.
C32_WaitStartOnlyWhileWaiting ==
    /\ \A i \in 1..Len(cars) :
          cars[i].waitStartTime # NULL => cars[i].state = "waiting"
    /\ \A k \in 1..Len(retired) :
          retired[k].waitStartTime = NULL

\* A vehicle that stood at a red light, with a wait-start timestamp, has been
\* released into crossing by the last update and has none.
C32_Witness ==
    \E i \in 1..Len(cars) :
        /\ cars[i].was = "waiting" /\ cars[i].state = "crossing"
        /\ cars[i].totalWaitTime > 0
        /\ cars[i].waitStartTime = NULL

====
